---- MODULE Spec2Model ----
(***************************************************************************)
(* Model of the animation-and-camera engine of the travel map              *)
(* (TravelMap.tsx: MapContent) together with the App state that drives it  *)
(* (App.tsx: routeData, isPlaying, onAnimationComplete).                   *)
(*                                                                         *)
(* One React commit is one atomic step: the state update, the cleanups of  *)
(* the effects whose dependencies changed and the effect bodies, in the    *)
(* order the component declares them.  Real numbers are exact rationals    *)
(* <<numerator, denominator>> in lowest terms.                             *)
(***************************************************************************)
EXTENDS Integers, Sequences, FiniteSets, TLC

(***************************************************************************)
(* Bounds of the model.                                                    *)
(***************************************************************************)
MaxTime == 180000
MaxGenLegs == 2
MaxGenCoords == 2

TimeSteps == {45000, 90000}

(***************************************************************************)
(* Program constants.                                                      *)
(***************************************************************************)
ANIMATION_DURATION_SECONDS == 90
FOLLOW_ZOOM_LEVEL == 10
zoomDuration == 3000
InitialZoom == 5

CAR == "car"
TRAIN == "train"
BUS == "bus"
TransportMode == {CAR, TRAIN, BUS}

COLORS(mode) ==
  CASE mode = CAR -> "#0099ff"
    [] mode = TRAIN -> "#22c55e"
    [] mode = BUS -> "#ec4899"

(***************************************************************************)
(* Evaluation order: F(v) with v evaluated first, once (one statement      *)
(* after another; an argument evaluated before the call).                  *)
(***************************************************************************)
Bind(v, F(_)) == CHOOSE r \in {F(x) : x \in {v}} : TRUE
Bind2(v, w, F(_, _)) == CHOOSE r \in {F(x, y) : x \in {v}, y \in {w}} : TRUE

(***************************************************************************)
(* Exact rational arithmetic.                                              *)
(***************************************************************************)
Abs(x) == IF x < 0 THEN -x ELSE x

RECURSIVE Gcd(_, _)
Gcd(a, b) == IF b = 0 THEN a ELSE Bind2(b, a % b, LAMBDA x, y : Gcd(x, y))

Rat(n0, d0) ==
  Bind2(n0, d0, LAMBDA n, d :
    Bind2(IF d < 0 THEN -1 ELSE 1, Gcd(Abs(n), Abs(d)), LAMBDA s, g :
      <<(s * n) \div g, (s * d) \div g>>))

R(n) == <<n, 1>>
RatAdd(a0, b0) == Bind2(a0, b0, LAMBDA a, b : Rat(a[1] * b[2] + b[1] * a[2], a[2] * b[2]))
RatSub(a0, b0) == Bind2(a0, b0, LAMBDA a, b : Rat(a[1] * b[2] - b[1] * a[2], a[2] * b[2]))
RatMul(a0, b0) == Bind2(a0, b0, LAMBDA a, b : Rat(a[1] * b[1], a[2] * b[2]))
RatDiv(a0, b0) == Bind2(a0, b0, LAMBDA a, b : Rat(a[1] * b[2], a[2] * b[1]))
RatLt(a0, b0) == Bind2(a0, b0, LAMBDA a, b : a[1] * b[2] < b[1] * a[2])
RatLe(a0, b0) == Bind2(a0, b0, LAMBDA a, b : a[1] * b[2] <= b[1] * a[2])
RatMin(a0, b0) == Bind2(a0, b0, LAMBDA a, b : IF RatLe(a, b) THEN a ELSE b)

(***************************************************************************)
(* Nullable references: <<>> is null, <<x>> holds x.                        *)
(***************************************************************************)
Null == <<>>
Some(x) == <<x>>
Deref(ref) == ref[1]

(***************************************************************************)
(* Geography.  Coordinates are integer grid points; L.latLng values carry  *)
(* rational lat/lng.  distanceTo is a metric on the grid: 0 exactly for    *)
(* equal points.                                                           *)
(***************************************************************************)
Coord(lat, lng) == [lat |-> lat, lng |-> lng]
LatLng(lat, lng) == [lat |-> lat, lng |-> lng]
distanceTo(from, to) == Abs(from.lat - to.lat) + Abs(from.lng - to.lng)

Leg(coordinates, mode) == [coordinates |-> coordinates, mode |-> mode]

\* The flat list of <<coordinate, mode>> of a leg list: legs.forEach(leg => leg.coordinates.forEach(...))
RECURSIVE Flatten(_)
Flatten(legs0) ==
  Bind(legs0, LAMBDA legs :
    IF legs = <<>> THEN <<>>
    ELSE Bind(Head(legs), LAMBDA leg :
           [k \in 1..Len(leg.coordinates) |-> [c |-> leg.coordinates[k], mode |-> leg.mode]]
             \o Flatten(Tail(legs))))

\* Mutant: currentDist = dist instead of currentDist += dist.
PushPointNoAccumulate(points, currentDist, c, mode) ==
  Bind(IF Len(points) > 0
       THEN distanceTo(Coord(points[Len(points)].lat, points[Len(points)].lng), c)
       ELSE 0, LAMBDA dist :
    [points |-> Append(points, [lat |-> c.lat, lng |-> c.lng, mode |-> mode,
                                cumulativeDistance |-> dist]),
     currentDist |-> dist])

\* Mutant: a coordinate equal to the previous point is dropped.
PushPointDedup(points, currentDist, c, mode) ==
  IF Len(points) > 0 /\ points[Len(points)].lat = c.lat /\ points[Len(points)].lng = c.lng
  THEN [points |-> points, currentDist |-> currentDist]
  ELSE Bind(IF Len(points) > 0
            THEN distanceTo(Coord(points[Len(points)].lat, points[Len(points)].lng), c)
            ELSE 0, LAMBDA dist :
         Bind(currentDist + dist, LAMBDA d :
           [points |-> Append(points, [lat |-> c.lat, lng |-> c.lng, mode |-> mode,
                                       cumulativeDistance |-> d]),
            currentDist |-> d]))

\* One step of the inner loop body: push the next PathPoint.
PushPoint(points, currentDist, c, mode) ==
  Bind(IF Len(points) > 0
       THEN distanceTo(Coord(points[Len(points)].lat, points[Len(points)].lng), c)
       ELSE 0, LAMBDA dist :
    Bind(currentDist + dist, LAMBDA d :
      [points |-> Append(points, [lat |-> c.lat, lng |-> c.lng, mode |-> mode,
                                  cumulativeDistance |-> d]),
       currentDist |-> d]))

RECURSIVE BuildFrom(_, _, _)
BuildFrom(items0, points0, currentDist0) ==
  Bind(items0, LAMBDA items :
    Bind2(points0, currentDist0, LAMBDA points, currentDist :
      IF items = <<>> THEN [points |-> points, currentDist |-> currentDist]
      ELSE Bind(PushPoint(points, currentDist, Head(items).c, Head(items).mode), LAMBDA r :
             BuildFrom(Tail(items), r.points, r.currentDist))))

\* Pre-process Data: the PathPoints and the total distance of a route.
BuildPath(route) == BuildFrom(Flatten(route.legs), <<>>, 0)

(***************************************************************************)
(* routeService.getMultiStopRoute: the bounding box of the legs.           *)
(***************************************************************************)
SetMin(S0) == Bind(S0, LAMBDA S : CHOOSE x \in S : \A y \in S : x <= y)
SetMax(S0) == Bind(S0, LAMBDA S : CHOOSE x \in S : \A y \in S : x >= y)

minDiff == <<1, 20>>

\* [min, max] widened to center -/+ minDiff when narrower than minDiff.
PadRange(lo0, hi0) ==
  Bind2(lo0, hi0, LAMBDA lo, hi :
    IF RatLt(RatSub(R(hi), R(lo)), minDiff)
    THEN Bind(RatDiv(RatAdd(R(hi), R(lo)), R(2)), LAMBDA center :
           <<RatSub(center, minDiff), RatAdd(center, minDiff)>>)
    ELSE <<R(lo), R(hi)>>)

DefaultBounds == <<LatLng(<<553, 10>>, R(11)), LatLng(R(69), R(24))>>

BoundingBox(legs) ==
  Bind(Flatten(legs), LAMBDA allCoords :
    IF Len(allCoords) > 0
    THEN Bind2({allCoords[k].c.lat : k \in 1..Len(allCoords)},
               {allCoords[k].c.lng : k \in 1..Len(allCoords)}, LAMBDA lats, lngs :
           Bind2(PadRange(SetMin(lats), SetMax(lats)),
                 PadRange(SetMin(lngs), SetMax(lngs)), LAMBDA la, ln :
             <<LatLng(la[1], ln[1]), LatLng(la[2], ln[2])>>))
    ELSE DefaultBounds)

Route(legs) == [legs |-> legs, boundingBox |-> BoundingBox(legs)]

(***************************************************************************)
(* routeService.getMultiStopRoute(waypoints), given what the routing       *)
(* server answers to the request of each leg.  A request that is rejected, *)
(* an answer that cannot be read and an answer without code "Ok" or        *)
(* without routes all take the fallback; they are one kind of response.    *)
(***************************************************************************)
Waypoint(coords, modeToNext) == [coords |-> coords, modeToNext |-> modeToNext]

FetchFailed == [ok |-> FALSE]
FetchOk(coordinates, distance, duration) ==
  [ok |-> TRUE, coordinates |-> coordinates, distance |-> distance, duration |-> duration]

\* Fallback to straight line if OSRM fails
FallbackLeg(start, end) ==
  [coordinates |-> <<start.coords, end.coords>>, mode |-> start.modeToNext,
   distance |-> 0, duration |-> 0]

\* One pass of the loop body: the leg pushed for waypoints i, i + 1.
RouteLegOf(start, end, response) ==
  IF response.ok
  THEN [coordinates |-> response.coordinates, mode |-> start.modeToNext,
        distance |-> response.distance, duration |-> response.duration]
  ELSE FallbackLeg(start, end)

RECURSIVE SumOver(_, _)
SumOver(seq, field) ==
  IF seq = <<>> THEN 0 ELSE Head(seq)[field] + SumOver(Tail(seq), field)

\* Mutant: a leg whose request fails is left out.
getMultiStopRouteSkipsFailed(waypoints, responses) ==
  IF Len(waypoints) < 2
  THEN [failed |-> TRUE]
  ELSE Bind(SelectSeq([i \in 1..(Len(waypoints) - 1) |->
                         [leg |-> RouteLegOf(waypoints[i], waypoints[i + 1], responses[i]),
                          ok |-> responses[i].ok]],
                      LAMBDA x : x.ok), LAMBDA kept :
         Bind([i \in 1..Len(kept) |-> kept[i].leg], LAMBDA legs :
           [failed |-> FALSE,
            route |-> [legs |-> legs,
                       totalDistance |-> SumOver(legs, "distance"),
                       totalDuration |-> SumOver(legs, "duration"),
                       boundingBox |-> BoundingBox(legs)]]))

\* failed: the call throws ("At least 2 waypoints needed"); otherwise route
\* is the RouteData it resolves to.
getMultiStopRoute(waypoints, responses) ==
  IF Len(waypoints) < 2
  THEN [failed |-> TRUE]
  ELSE Bind([i \in 1..(Len(waypoints) - 1) |->
               RouteLegOf(waypoints[i], waypoints[i + 1], responses[i])], LAMBDA legs :
         [failed |-> FALSE,
          route |-> [legs |-> legs,
                     totalDistance |-> SumOver(legs, "distance"),
                     totalDuration |-> SumOver(legs, "duration"),
                     boundingBox |-> BoundingBox(legs)]])

(***************************************************************************)
(* The state MapContent's effects and callbacks work on, as one record:    *)
(* the refs, the Leaflet map view and the browser's pending frame requests.*)
(***************************************************************************)
Icon(mode, isFlipped) == [mode |-> mode, isFlipped |-> isFlipped]
createLeafletIcon(mode, isFlipped) == Icon(mode, isFlipped)

\* requestAnimationFrame ids: positive and never equal to a pending id or to
\* the id the ref still holds (ids that nothing holds any more are reused,
\* which the code cannot observe).
FreshId(s) ==
  CHOOSE n \in 1..(Cardinality(s.rafPending) + 2) :
    /\ n \notin s.rafPending
    /\ n # s.animationFrameRef
    /\ \A k \in 1..(n - 1) : k \in s.rafPending \/ k = s.animationFrameRef

cancelAnimationFrame(s, id) == [s EXCEPT !.rafPending = @ \ {id}]

\* if (animationFrameRef.current) cancelAnimationFrame(animationFrameRef.current)
CancelPending(s0) ==
  Bind(s0, LAMBDA s :
    IF s.animationFrameRef # 0 THEN cancelAnimationFrame(s, s.animationFrameRef) ELSE s)

\* animationFrameRef.current = requestAnimationFrame(animate)
requestAnimationFrame(s0) ==
  Bind(s0, LAMBDA s :
    Bind(FreshId(s), LAMBDA id :
      [s EXCEPT !.rafPending = @ \cup {id}, !.animationFrameRef = id]))

(***************************************************************************)
(* Effect: background line opacity, deps [isPlaying].                      *)
(***************************************************************************)
BackgroundEffect(s, playing) ==
  [s EXCEPT !.bgPolylinesRef =
     [k \in 1..Len(@) |->
        IF playing THEN [@[k] EXCEPT !.opacity = R(0), !.weight = 0]
        ELSE [@[k] EXCEPT !.opacity = <<2, 5>>, !.weight = 6]]]

(***************************************************************************)
(* Effect 1: set up map and data, deps [routeData, map].                   *)
(***************************************************************************)
\* Mutant: the teardown leaves currentSegmentPointsRef as it is.
RouteTeardownKeepsTrail(s) ==
  [CancelPending(s) EXCEPT
     !.isAnimatingRef = FALSE,
     !.vehicleMarkerRef = Null,
     !.finishedSegmentsLayerRef = Null,
     !.currentSegmentPolylineRef = Null,
     !.bgPolylinesRef = <<>>,
     !.pathDataRef = <<>>]

RouteTeardown(s) ==
  [CancelPending(s) EXCEPT
     !.isAnimatingRef = FALSE,
     !.vehicleMarkerRef = Null,
     !.finishedSegmentsLayerRef = Null,
     !.currentSegmentPolylineRef = Null,
     !.bgPolylinesRef = <<>>,
     !.pathDataRef = <<>>,
     !.currentSegmentPointsRef = <<>>]

DrawBackground(legs) ==
  [k \in 1..Len(legs) |->
     [latlngs |-> [j \in 1..Len(legs[k].coordinates) |->
                     LatLng(R(legs[k].coordinates[j].lat), R(legs[k].coordinates[j].lng))],
      color |-> COLORS(legs[k].mode), weight |-> 6, opacity |-> <<2, 5>>]]

\* map.fitBounds: centres the view on the box; the zoom it picks depends on
\* the viewport and is an input (fitZoom).
FitBounds(s0, box, fitZoom) ==
  Bind(s0, LAMBDA s :
  IF box[1].lat # R(0) /\ box[2].lat # R(0)
  THEN [s EXCEPT !.mapCenter = LatLng(RatDiv(RatAdd(box[1].lat, box[2].lat), R(2)),
                                      RatDiv(RatAdd(box[1].lng, box[2].lng), R(2))),
                 !.mapZoom = R(fitZoom)]
  ELSE s)

\* Draw Background, Initialize Layers, FIT BOUNDS: for a path that is not empty
InitializeLayers(s, route, startPoint, fitZoom) ==
  FitBounds([s EXCEPT
               !.bgPolylinesRef = DrawBackground(route.legs),
               !.finishedSegmentsLayerRef = Some(<<>>),
               !.currentSegmentPolylineRef =
                  Some([latlngs |-> <<>>, color |-> COLORS(startPoint.mode)]),
               !.vehicleMarkerRef =
                  Some([latlng |-> LatLng(R(startPoint.lat), R(startPoint.lng)),
                        icon |-> createLeafletIcon(startPoint.mode, FALSE)]),
               !.prevModeRef = startPoint.mode,
               !.prevFlippedRef = FALSE],
            route.boundingBox, fitZoom)

\* Mutant: the total distance is stored after the test for an empty path.
RouteEffectTotalAfterEmptyTest(s, route, fitZoom) ==
  Bind(RouteTeardown(s), LAMBDA s1 :
    IF route = Null THEN s1
    ELSE Bind(BuildPath(Deref(route)), LAMBDA built :
           Bind([s1 EXCEPT !.pathDataRef = built.points], LAMBDA s2 :
             IF Len(built.points) = 0 THEN s2
             ELSE InitializeLayers([s2 EXCEPT !.totalDistanceRef = built.currentDist],
                                   Deref(route), built.points[1], fitZoom))))

RouteEffect(s, route, fitZoom) ==
  Bind(RouteTeardown(s), LAMBDA s1 :
    IF route = Null THEN s1
    ELSE Bind(BuildPath(Deref(route)), LAMBDA built :
           Bind([s1 EXCEPT !.pathDataRef = built.points,
                           !.totalDistanceRef = built.currentDist], LAMBDA s2 :
             IF Len(built.points) = 0 THEN s2
             ELSE InitializeLayers(s2, Deref(route), built.points[1], fitZoom))))

(***************************************************************************)
(* Helper to update markers/lines.                                         *)
(***************************************************************************)
SetMarkerIcon(s, icon) ==
  [s EXCEPT !.vehicleMarkerRef = Some([Deref(@) EXCEPT !.icon = icon])]

\* Mutant: the frozen segment takes the color of the new mode.
ModeChangedFreezesNewColor(s, point, isFlipped, interpolatedPos) ==
  LET frozen == IF Len(s.currentSegmentPointsRef) > 0
                THEN Some(Append(Deref(s.finishedSegmentsLayerRef),
                                 [latlngs |-> s.currentSegmentPointsRef,
                                  color |-> COLORS(point.mode)]))
                ELSE s.finishedSegmentsLayerRef
  IN  SetMarkerIcon([s EXCEPT !.finishedSegmentsLayerRef = frozen,
                              !.currentSegmentPointsRef = <<interpolatedPos>>,
                              !.currentSegmentPolylineRef =
                                 Some([latlngs |-> <<interpolatedPos>>,
                                       color |-> COLORS(point.mode)]),
                              !.prevModeRef = point.mode],
                    createLeafletIcon(point.mode, isFlipped))

\* 2. Update Mode / Trail Color logic (the branch point.mode !== prevModeRef.current)
ModeChanged(s, point, isFlipped, interpolatedPos) ==
  LET frozen == IF Len(s.currentSegmentPointsRef) > 0
                THEN Some(Append(Deref(s.finishedSegmentsLayerRef),
                                 [latlngs |-> s.currentSegmentPointsRef,
                                  color |-> COLORS(s.prevModeRef)]))
                ELSE s.finishedSegmentsLayerRef
  IN  SetMarkerIcon([s EXCEPT !.finishedSegmentsLayerRef = frozen,
                              !.currentSegmentPointsRef = <<interpolatedPos>>,
                              !.currentSegmentPolylineRef =
                                 Some([latlngs |-> <<interpolatedPos>>,
                                       color |-> COLORS(point.mode)]),
                              !.prevModeRef = point.mode],
                    createLeafletIcon(point.mode, isFlipped))

\* Mutant: the flag is recorded but the icon is not replaced.
FlipChangedKeepsIcon(s, point, isFlipped) ==
  [s EXCEPT !.prevFlippedRef = isFlipped]

\* Update Flipped state
FlipChanged(s, point, isFlipped) ==
  [SetMarkerIcon(s, createLeafletIcon(point.mode, isFlipped)) EXCEPT
     !.prevFlippedRef = isFlipped]

\* Mutant: the new position is put at the head of the live points.
GrowTrailAtHead(s, interpolatedPos) ==
  Bind(<<interpolatedPos>> \o s.currentSegmentPointsRef, LAMBDA pts :
    [s EXCEPT !.currentSegmentPointsRef = pts,
              !.currentSegmentPolylineRef = Some([Deref(@) EXCEPT !.latlngs = pts])])

\* 3. Grow Current Trail
GrowTrail(s, interpolatedPos) ==
  Bind(Append(s.currentSegmentPointsRef, interpolatedPos), LAMBDA pts :
    [s EXCEPT !.currentSegmentPointsRef = pts,
              !.currentSegmentPolylineRef = Some([Deref(@) EXCEPT !.latlngs = pts])])

\* Mutant: the camera follows on the final call too.
FollowCameraAlways(s, isFinal, interpolatedPos, currentZoom) ==
  [s EXCEPT !.mapCenter = interpolatedPos, !.mapZoom = currentZoom]

\* 4. Follow Camera with Zoom
FollowCamera(s, isFinal, interpolatedPos, currentZoom) ==
  IF ~isFinal
  THEN [s EXCEPT !.mapCenter = interpolatedPos, !.mapZoom = currentZoom]
  ELSE s

\* 1. Move Vehicle
MoveVehicle(s, interpolatedPos) ==
  [s EXCEPT !.vehicleMarkerRef = Some([Deref(@) EXCEPT !.latlng = interpolatedPos])]

updateMapState(s, point, isFinal, isFlipped, interpolatedPos, currentZoom) ==
  IF \/ s.vehicleMarkerRef = Null
     \/ s.currentSegmentPolylineRef = Null
     \/ s.finishedSegmentsLayerRef = Null
  THEN s
  ELSE
    Bind(MoveVehicle(s, interpolatedPos), LAMBDA s1 :
    Bind(IF point.mode # s1.prevModeRef
         THEN ModeChanged(s1, point, isFlipped, interpolatedPos)
         ELSE s1, LAMBDA s2 :
    Bind(IF isFlipped # s2.prevFlippedRef
         THEN FlipChanged(s2, point, isFlipped)
         ELSE s2, LAMBDA s3 :
    Bind(GrowTrail(s3, interpolatedPos), LAMBDA s4 :
      FollowCamera(s4, isFinal, interpolatedPos, currentZoom)))))

(***************************************************************************)
(* animate(time): one tick.                                                *)
(***************************************************************************)
durationMs == ANIMATION_DURATION_SECONDS * 1000

Elapsed(s, time) == time - s.startTimeRef
RawProgress(s, time) == RatMin(Rat(Elapsed(s, time), durationMs), R(1))
TargetDist(s, time) == RatMul(R(s.totalDistanceRef), RawProgress(s, time))

RatCube(a0) == Bind(a0, LAMBDA a : RatMul(a, RatMul(a, a)))

\* Mutant: the ease written with the square instead of the cube.
CurrentZoomQuadratic(s, time) ==
  IF Elapsed(s, time) < zoomDuration
  THEN LET zoomProgress == Rat(Elapsed(s, time), zoomDuration)
           oneMinus == RatSub(R(1), zoomProgress)
           ease == RatSub(R(1), RatMul(oneMinus, oneMinus))
       IN  RatAdd(s.startZoomRef,
                  RatMul(RatSub(R(FOLLOW_ZOOM_LEVEL), s.startZoomRef), ease))
  ELSE R(FOLLOW_ZOOM_LEVEL)

\* Zoom Interpolation (First 3 seconds)
CurrentZoom(s, time) ==
  IF Elapsed(s, time) < zoomDuration
  THEN LET zoomProgress == Rat(Elapsed(s, time), zoomDuration)
           ease == RatSub(R(1), RatCube(RatSub(R(1), zoomProgress)))
       IN  RatAdd(s.startZoomRef,
                  RatMul(RatSub(R(FOLLOW_ZOOM_LEVEL), s.startZoomRef), ease))
  ELSE R(FOLLOW_ZOOM_LEVEL)

\* Mutant: the completion test written rawProgress > 1.
IsTerminalStrict(s, time) == RatLt(R(1), RawProgress(s, time))

\* if (rawProgress >= 1)
IsTerminal(s, time) == RatLe(R(1), RawProgress(s, time))

\* pathDataRef.current.findIndex(p => p.cumulativeDistance >= targetDist), 0-based, -1 if none
\* Mutant: findIndex with the test p.cumulativeDistance > targetDist.
FindIndexStrict(path, targetDist) ==
  Bind({k \in 1..Len(path) : RatLt(targetDist, R(path[k].cumulativeDistance))}, LAMBDA hits :
    IF hits = {} THEN -1 ELSE SetMin(hits) - 1)

FindIndex(path, targetDist) ==
  Bind({k \in 1..Len(path) : RatLe(targetDist, R(path[k].cumulativeDistance))}, LAMBDA hits :
    IF hits = {} THEN -1 ELSE SetMin(hits) - 1)

\* Find current segment: the 0-based index of p2
NextIdx(path, targetDist) ==
  Bind(FindIndex(path, targetDist), LAMBDA found :
    Bind(IF found = -1 THEN Len(path) - 1 ELSE found, LAMBDA clamped :
      IF clamped = 0 THEN 1 ELSE clamped))

\* Interpolate Position: the point handed to updateMapState, and isFlipped
\* Mutant: the direction test written p2.lng <= p1.lng.
IsFlippedOrEqual(p1, p2) == p2.lng <= p1.lng

\* const isFlipped = p2.lng < p1.lng
IsFlipped(p1, p2) == p2.lng < p1.lng

\* Mutant: the ratio computed without the test segmentDist > 0, so that a
\* segment of zero length gives 0 / 0, which is not a number.
InterpolateUnguarded(path, targetDist0) ==
  Bind2(targetDist0, NextIdx(path, targetDist0), LAMBDA targetDist, nextIdx :
  LET p1 == path[nextIdx]
      p2 == path[nextIdx + 1]
      segmentDist == p2.cumulativeDistance - p1.cumulativeDistance
      distInSegment == RatSub(targetDist, R(p1.cumulativeDistance))
      NaN == <<0, 0>>
  IN
  Bind(IF segmentDist > 0 THEN RatDiv(distInSegment, R(segmentDist)) ELSE NaN, LAMBDA ratio :
      [lat |-> IF ratio = NaN THEN NaN ELSE RatAdd(R(p1.lat), RatMul(R(p2.lat - p1.lat), ratio)),
       lng |-> IF ratio = NaN THEN NaN ELSE RatAdd(R(p1.lng), RatMul(R(p2.lng - p1.lng), ratio)),
       mode |-> p1.mode,
       cumulativeDistance |-> targetDist,
       isFlipped |-> IsFlipped(p1, p2),
       nextIdx |-> nextIdx,
       ratio |-> ratio]))

Interpolate(path, targetDist0) ==
  Bind2(targetDist0, NextIdx(path, targetDist0), LAMBDA targetDist, nextIdx :
  LET p1 == path[nextIdx]
      p2 == path[nextIdx + 1]
      segmentDist == p2.cumulativeDistance - p1.cumulativeDistance
      distInSegment == RatSub(targetDist, R(p1.cumulativeDistance))
  IN
  Bind(IF segmentDist > 0 THEN RatDiv(distInSegment, R(segmentDist)) ELSE R(0), LAMBDA ratio :
      [lat |-> RatAdd(R(p1.lat), RatMul(R(p2.lat - p1.lat), ratio)),
       lng |-> RatAdd(R(p1.lng), RatMul(R(p2.lng - p1.lng), ratio)),
       mode |-> p1.mode,
       cumulativeDistance |-> targetDist,
       isFlipped |-> IsFlipped(p1, p2),
       nextIdx |-> nextIdx,
       ratio |-> ratio]))

\* Mutant: the terminal branch takes the point before the last one.
AnimateTerminalOffByOne(s) ==
  LET last == s.pathDataRef[Len(s.pathDataRef) - 1]
  IN  [state |-> [updateMapState(s, last, TRUE, FALSE, LatLng(R(last.lat), R(last.lng)),
                                 R(FOLLOW_ZOOM_LEVEL))
                    EXCEPT !.isAnimatingRef = FALSE],
       completeCalls |-> 1]

\* Mutant: the terminal branch also clears the trail.
AnimateTerminalClearsTrail(s) ==
  LET last == s.pathDataRef[Len(s.pathDataRef)]
  IN  [state |-> [updateMapState(s, last, TRUE, FALSE, LatLng(R(last.lat), R(last.lng)),
                                 R(FOLLOW_ZOOM_LEVEL))
                    EXCEPT !.isAnimatingRef = FALSE,
                           !.finishedSegmentsLayerRef = IF @ # Null THEN Some(<<>>) ELSE @,
                           !.currentSegmentPointsRef = <<>>,
                           !.currentSegmentPolylineRef =
                              IF @ # Null THEN Some([Deref(@) EXCEPT !.latlngs = <<>>]) ELSE @],
       completeCalls |-> 1]

\* The terminal branch, up to the return.
AnimateTerminal(s) ==
  LET last == s.pathDataRef[Len(s.pathDataRef)]
  IN  [state |-> [updateMapState(s, last, TRUE, FALSE, LatLng(R(last.lat), R(last.lng)),
                                 R(FOLLOW_ZOOM_LEVEL))
                    EXCEPT !.isAnimatingRef = FALSE],
       completeCalls |-> 1]

\* Mutant: a non-terminal tick that does not request the next frame.
AnimateStepNoRequest(s, time) ==
  Bind(Interpolate(s.pathDataRef, TargetDist(s, time)), LAMBDA ip :
    [state |-> updateMapState(s, ip, FALSE, ip.isFlipped, LatLng(ip.lat, ip.lng),
                              CurrentZoom(s, time)),
     completeCalls |-> 0])

\* A non-terminal tick: interpolate, update, request the next frame.
AnimateStep(s, time) ==
  Bind(Interpolate(s.pathDataRef, TargetDist(s, time)), LAMBDA ip :
    [state |-> requestAnimationFrame(
                 updateMapState(s, ip, FALSE, ip.isFlipped, LatLng(ip.lat, ip.lng),
                                CurrentZoom(s, time))),
     completeCalls |-> 0])

\* animate: the state it leaves and the number of onAnimationComplete calls it made.
Animate(s0, time) ==
  Bind(s0, LAMBDA s :
    IF IsTerminal(s, time) THEN AnimateTerminal(s) ELSE AnimateStep(s, time))

(***************************************************************************)
(* Effect 2: animation loop, deps [isPlaying, onAnimationComplete, map].   *)
(***************************************************************************)
\* Mutant: the guard branch leaves isAnimatingRef as it is.
AnimationStopKeepsFlag(s) ==
  [CancelPending(s) EXCEPT !.animationCleanup = FALSE]

\* The guard branch: nothing to animate.
AnimationStop(s) ==
  [CancelPending(s) EXCEPT !.isAnimatingRef = FALSE, !.animationCleanup = FALSE]

\* if (!isAnimatingRef.current) { ... }: begin a run.
AnimationReset(s, time) ==
  [s EXCEPT
     !.isAnimatingRef = TRUE,
     !.startTimeRef = time,
     !.startZoomRef = s.mapZoom,
     !.finishedSegmentsLayerRef = IF @ # Null THEN Some(<<>>) ELSE @,
     !.currentSegmentPointsRef = <<>>,
     !.currentSegmentPolylineRef =
        IF @ # Null THEN Some([Deref(@) EXCEPT !.latlngs = <<>>]) ELSE @]

\* Mutant: the block that begins a run stands before the guard.
AnimationEffectResetsFirst(s0, playing, time) ==
  Bind(s0, LAMBDA s :
    Bind(IF ~s.isAnimatingRef THEN AnimationReset(s, time) ELSE s, LAMBDA s1 :
      IF ~playing \/ Len(s1.pathDataRef) < 2
      THEN AnimationStop(s1)
      ELSE [requestAnimationFrame(s1) EXCEPT !.animationCleanup = TRUE]))

\* Mutant: the guard tests the path length only, not the playing flag.
AnimationEffectIgnoresPlaying(s0, playing, time) ==
  Bind(s0, LAMBDA s :
    IF Len(s.pathDataRef) < 2
    THEN AnimationStop(s)
    ELSE [requestAnimationFrame(IF ~s.isAnimatingRef THEN AnimationReset(s, time) ELSE s)
            EXCEPT !.animationCleanup = TRUE])

\* Mutant: every run of the effect begins a run, whatever isAnimatingRef holds.
AnimationEffectAlwaysResets(s0, playing, time) ==
  Bind(s0, LAMBDA s :
    IF ~playing \/ Len(s.pathDataRef) < 2
    THEN AnimationStop(s)
    ELSE [requestAnimationFrame(AnimationReset(s, time)) EXCEPT !.animationCleanup = TRUE])

AnimationEffect(s0, playing, time) ==
  Bind(s0, LAMBDA s :
    IF ~playing \/ Len(s.pathDataRef) < 2
    THEN AnimationStop(s)
    ELSE [requestAnimationFrame(IF ~s.isAnimatingRef THEN AnimationReset(s, time) ELSE s)
            EXCEPT !.animationCleanup = TRUE])

\* Mutant: the effect returns no cleanup.
NoAnimationCleanup(s) == s

\* The cleanup the last run of the effect returned, if it returned one.
AnimationCleanup(s0) ==
  Bind(s0, LAMBDA s : IF s.animationCleanup THEN CancelPending(s) ELSE s)

(***************************************************************************)
(* State.                                                                  *)
(***************************************************************************)
VARIABLES
  \* App state
  routeData, isPlaying,
  \* MapContent refs
  vehicleMarkerRef, bgPolylinesRef, finishedSegmentsLayerRef,
  currentSegmentPolylineRef, currentSegmentPointsRef, pathDataRef,
  totalDistanceRef, animationFrameRef, startTimeRef, isAnimatingRef,
  startZoomRef, prevModeRef, prevFlippedRef,
  \* the Leaflet map view
  mapCenter, mapZoom,
  \* the browser: pending frame requests, the cleanup React holds for the
  \* animation effect, the clock, whether a frame already ran at this timestamp
  rafPending, animationCleanup, now, frameRanNow,
  \* history: the last operation, the ticks run and the onAnimationComplete
  \* calls made since the last start request or route change
  lastOp, runTicks, runCompletions,
  \* App.handleGenerateRoute: the calls that await getMultiStopRoute (their
  \* waypoint lists, oldest first), the last call that came back, and the
  \* waypoint list of the call made last
  inFlight, lastCall, lastRequested

refs == <<vehicleMarkerRef, bgPolylinesRef, finishedSegmentsLayerRef,
          currentSegmentPolylineRef, currentSegmentPointsRef, pathDataRef,
          totalDistanceRef, animationFrameRef, startTimeRef, isAnimatingRef,
          startZoomRef, prevModeRef, prevFlippedRef, mapCenter, mapZoom,
          rafPending, animationCleanup>>

vars == <<routeData, isPlaying, refs, now, frameRanNow, lastOp, runTicks, runCompletions,
          inFlight, lastCall, lastRequested>>

Cur ==
  [vehicleMarkerRef |-> vehicleMarkerRef,
   bgPolylinesRef |-> bgPolylinesRef,
   finishedSegmentsLayerRef |-> finishedSegmentsLayerRef,
   currentSegmentPolylineRef |-> currentSegmentPolylineRef,
   currentSegmentPointsRef |-> currentSegmentPointsRef,
   pathDataRef |-> pathDataRef,
   totalDistanceRef |-> totalDistanceRef,
   animationFrameRef |-> animationFrameRef,
   startTimeRef |-> startTimeRef,
   isAnimatingRef |-> isAnimatingRef,
   startZoomRef |-> startZoomRef,
   prevModeRef |-> prevModeRef,
   prevFlippedRef |-> prevFlippedRef,
   mapCenter |-> mapCenter,
   mapZoom |-> mapZoom,
   rafPending |-> rafPending,
   animationCleanup |-> animationCleanup]

Assign(s) ==
  /\ vehicleMarkerRef' = s.vehicleMarkerRef
  /\ bgPolylinesRef' = s.bgPolylinesRef
  /\ finishedSegmentsLayerRef' = s.finishedSegmentsLayerRef
  /\ currentSegmentPolylineRef' = s.currentSegmentPolylineRef
  /\ currentSegmentPointsRef' = s.currentSegmentPointsRef
  /\ pathDataRef' = s.pathDataRef
  /\ totalDistanceRef' = s.totalDistanceRef
  /\ animationFrameRef' = s.animationFrameRef
  /\ startTimeRef' = s.startTimeRef
  /\ isAnimatingRef' = s.isAnimatingRef
  /\ startZoomRef' = s.startZoomRef
  /\ prevModeRef' = s.prevModeRef
  /\ prevFlippedRef' = s.prevFlippedRef
  /\ mapCenter' = s.mapCenter
  /\ mapZoom' = s.mapZoom
  /\ rafPending' = s.rafPending
  /\ animationCleanup' = s.animationCleanup

(***************************************************************************)
(* One React commit of App and MapContent.  onAnimationComplete is a new   *)
(* function on every render of App, so the animation effect is torn down   *)
(* and run again on every commit; the other two effects run when their     *)
(* dependency changed.  Cleanups run before effect bodies.                 *)
(***************************************************************************)
\* Mutant: the animation effect runs again only when the playing flag
\* changed (as with a completion callback that keeps its identity).
CommitStableCallback(s, playingChanged, routeChanged, playing, route, fitZoom, time) ==
  Bind(IF playingChanged THEN AnimationCleanup(s) ELSE s, LAMBDA a :
  Bind(IF playingChanged THEN BackgroundEffect(a, playing) ELSE a, LAMBDA b :
  Bind(IF routeChanged THEN RouteEffect(b, route, fitZoom) ELSE b, LAMBDA c :
    IF playingChanged THEN AnimationEffect(c, playing, time) ELSE c)))

Commit(s, playingChanged, routeChanged, playing, route, fitZoom, time) ==
  Bind(AnimationCleanup(s), LAMBDA a :
  Bind(IF playingChanged THEN BackgroundEffect(a, playing) ELSE a, LAMBDA b :
  Bind(IF routeChanged THEN RouteEffect(b, route, fitZoom) ELSE b, LAMBDA c :
    AnimationEffect(c, playing, time))))

(***************************************************************************)
(* Inputs.                                                                 *)
(***************************************************************************)
PA == Coord(3, 1)
PB == Coord(2, 1)
PC == Coord(1, 2)
PD == Coord(0, 1)

EmptyRoute == Route(<<>>)
SinglePointRoute == Route(<<Leg(<<PA>>, CAR)>>)
TwoPointRoute == Route(<<Leg(<<PA, PC>>, BUS)>>)
StandStillRoute == Route(<<Leg(<<PB, PB>>, TRAIN)>>)
CarTrainCarRoute == Route(<<Leg(<<PA, PB>>, CAR), Leg(<<PB, PC>>, TRAIN), Leg(<<PC, PD>>, CAR)>>)

Routes == {EmptyRoute, SinglePointRoute, TwoPointRoute, StandStillRoute, CarTrainCarRoute}

FitZooms == {12}

(***************************************************************************)
(* Init: App and MapContent mounted, no route, not playing.                *)
(***************************************************************************)
Refs0 ==
  [vehicleMarkerRef |-> Null, bgPolylinesRef |-> <<>>,
   finishedSegmentsLayerRef |-> Null, currentSegmentPolylineRef |-> Null,
   currentSegmentPointsRef |-> <<>>, pathDataRef |-> <<>>,
   totalDistanceRef |-> 0, animationFrameRef |-> 0, startTimeRef |-> 0,
   isAnimatingRef |-> FALSE, startZoomRef |-> R(0), prevModeRef |-> CAR,
   prevFlippedRef |-> FALSE,
   mapCenter |-> LatLng(Rat(593293, 10000), Rat(180686, 10000)),
   mapZoom |-> R(InitialZoom),
   rafPending |-> {}, animationCleanup |-> FALSE]

Mounted(route, playing, fitZoom) ==
  AnimationEffect(RouteEffect(BackgroundEffect(Refs0, playing), route, fitZoom), playing, 0)

InitWith(s) ==
  /\ vehicleMarkerRef = s.vehicleMarkerRef
  /\ bgPolylinesRef = s.bgPolylinesRef
  /\ finishedSegmentsLayerRef = s.finishedSegmentsLayerRef
  /\ currentSegmentPolylineRef = s.currentSegmentPolylineRef
  /\ currentSegmentPointsRef = s.currentSegmentPointsRef
  /\ pathDataRef = s.pathDataRef
  /\ totalDistanceRef = s.totalDistanceRef
  /\ animationFrameRef = s.animationFrameRef
  /\ startTimeRef = s.startTimeRef
  /\ isAnimatingRef = s.isAnimatingRef
  /\ startZoomRef = s.startZoomRef
  /\ prevModeRef = s.prevModeRef
  /\ prevFlippedRef = s.prevFlippedRef
  /\ mapCenter = s.mapCenter
  /\ mapZoom = s.mapZoom
  /\ rafPending = s.rafPending
  /\ animationCleanup = s.animationCleanup

Init ==
  /\ routeData = Null
  /\ isPlaying = FALSE
  /\ InitWith(Mounted(Null, FALSE, InitialZoom))
  /\ now = 0
  /\ frameRanNow = FALSE
  /\ lastOp = "mount"
  /\ runTicks = 0
  /\ runCompletions = 0
  /\ inFlight = <<>>
  /\ lastCall = Null
  /\ lastRequested = Null

(***************************************************************************)
(* Operations.                                                             *)
(***************************************************************************)
\* App: onStartAnimation = () => { if (routeData) setIsPlaying(true) }
OnStartAnimation ==
  /\ routeData # Null
  /\ ~isPlaying
  /\ now + durationMs <= MaxTime
  /\ isPlaying' = TRUE
  /\ \E s \in {Commit(Cur, TRUE, FALSE, TRUE, routeData, 0, now)} : Assign(s)
  /\ lastOp' = "start"
  /\ runTicks' = 0
  /\ runCompletions' = 0
  /\ UNCHANGED <<routeData, now, frameRanNow, inFlight, lastCall, lastRequested>>

\* App: onPauseAnimation / onResetAnimation / click on the map: setIsPlaying(false)
OnPauseAnimation ==
  /\ isPlaying' = FALSE
  /\ IF isPlaying
     THEN \E s \in {Commit(Cur, TRUE, FALSE, FALSE, routeData, 0, now)} : Assign(s)
     ELSE UNCHANGED refs
  /\ lastOp' = "pause"
  /\ UNCHANGED <<routeData, now, frameRanNow, runTicks, runCompletions, inFlight, lastCall, lastRequested>>

\* App renders again with routeData and isPlaying as they were (setIsLoading, setUIHidden)
Rerender ==
  /\ \E s \in {Commit(Cur, FALSE, FALSE, isPlaying, routeData, 0, now)} : Assign(s)
  /\ lastOp' = "rerender"
  /\ UNCHANGED <<routeData, isPlaying, now, frameRanNow, runTicks, runCompletions,
                 inFlight, lastCall, lastRequested>>

\* App: setRouteData(route) with the route a getMultiStopRoute call resolved to
SetRouteData(route, fitZoom) ==
  /\ isPlaying => now + durationMs <= MaxTime
  /\ routeData' = Some(route)
  /\ \E s \in {Commit(Cur, FALSE, TRUE, isPlaying, Some(route), fitZoom, now)} : Assign(s)
  /\ lastOp' = "route"
  /\ runTicks' = 0
  /\ runCompletions' = 0
  /\ UNCHANGED <<isPlaying, now, frameRanNow, inFlight, lastCall, lastRequested>>

\* The browser runs a pending frame request: animate(now), and the commit
\* that onAnimationComplete = () => setIsPlaying(false) causes.
Tick ==
  \E id \in rafPending :
    /\ ~frameRanNow
    /\ \E r \in {Animate([Cur EXCEPT !.rafPending = @ \ {id}], now)} :
         IF r.completeCalls > 0
         THEN /\ isPlaying' = FALSE
              /\ \E s \in {Commit(r.state, isPlaying, FALSE, FALSE, routeData, 0, now)} : Assign(s)
              /\ runCompletions' = runCompletions + r.completeCalls
         ELSE /\ Assign(r.state)
              /\ UNCHANGED <<isPlaying, runCompletions>>
    /\ frameRanNow' = TRUE
    /\ lastOp' = "tick"
    /\ runTicks' = runTicks + 1
    /\ UNCHANGED <<routeData, now, inFlight, lastCall, lastRequested>>

\* Time passes.
AdvanceTime ==
  \E dt \in TimeSteps :
    /\ now + dt <= MaxTime
    /\ now' = now + dt
    /\ frameRanNow' = FALSE
    /\ UNCHANGED <<routeData, isPlaying, refs, lastOp, runTicks, runCompletions,
                   inFlight, lastCall, lastRequested>>

Next ==
  \/ OnStartAnimation
  \/ OnPauseAnimation
  \/ Rerender
  \/ \E route \in Routes, fitZoom \in FitZooms : SetRouteData(route, fitZoom)
  \/ Tick
  \/ AdvanceTime

Spec == Init /\ [][Next]_vars

(***************************************************************************)
(* The path builder on every route of a bounded family: the first route    *)
(* that arrives is any leg list of at most MaxGenLegs legs of at most      *)
(* MaxGenCoords coordinates each.                                          *)
(***************************************************************************)
GenGrid == {PA, PC}
GenModes == {CAR, TRAIN}
SeqsUpTo(S, n) == UNION {[1..k -> S] : k \in 0..n}
GenLegs == {Leg(cs, m) : cs \in SeqsUpTo(GenGrid, MaxGenCoords), m \in GenModes}
GenRoutes == {Route(ls) : ls \in SeqsUpTo(GenLegs, MaxGenLegs)}

NextPath ==
  \/ /\ routeData = Null
     /\ \E route \in GenRoutes, fitZoom \in FitZooms : SetRouteData(route, fitZoom)
  \/ OnStartAnimation
  \/ OnPauseAnimation

SpecPath == Init /\ [][NextPath]_vars

(***************************************************************************)
(* Playback frame by frame: the browser runs every requested frame, at     *)
(* 1 s intervals while the zoom-in lasts and at every sixth of the         *)
(* playback duration afterwards (offsets from the start of the run); the   *)
(* time between two runs is not counted.                                   *)
(***************************************************************************)
FrameOffsets == {0, 1000, 2000, 3000} \cup {15000 * k : k \in 1..12}
FrameTimes == {startTimeRef + o : o \in FrameOffsets}

\* a loop of three legs whose two mode changes fall on frame times, and a
\* route that begins with a leg of zero length
RoundTripRoute == Route(<<Leg(<<PA, PB>>, CAR), Leg(<<PB, PC>>, TRAIN), Leg(<<PC, PA>>, CAR)>>)
WaitThenGoRoute == Route(<<Leg(<<PB, PB>>, CAR), Leg(<<PB, PC>>, TRAIN)>>)
FrameRoutes == {RoundTripRoute, WaitThenGoRoute}
FrameFitZooms == {4, 12}

AdvanceFrame ==
  /\ isPlaying
  /\ rafPending = {} \/ frameRanNow
  /\ \E t \in FrameTimes :
       /\ t > now
       /\ t <= MaxTime
       /\ \A u \in FrameTimes : u > now => t <= u
       /\ now' = t
  /\ frameRanNow' = FALSE
  /\ UNCHANGED <<routeData, isPlaying, refs, lastOp, runTicks, runCompletions,
                 inFlight, lastCall, lastRequested>>

NextFrames ==
  \/ /\ routeData = Null
     /\ \E route \in FrameRoutes, fitZoom \in FrameFitZooms : SetRouteData(route, fitZoom)
  \/ /\ mapZoom[2] = 1       \* a run starts from a whole zoom level
     /\ OnStartAnimation
  \/ /\ frameRanNow          \* a pause between two frames
     /\ isPlaying
     /\ OnPauseAnimation
  \/ Tick
  \/ AdvanceFrame

SpecFrames == Init /\ [][NextFrames]_vars

(***************************************************************************)
(* Frames that carry an earlier timestamp.  requestAnimationFrame hands    *)
(* animate the time at which the frame began, while the animation effect   *)
(* reads performance.now() when it runs; an effect that runs after the     *)
(* frame began (a click handled between the begin of the frame and its     *)
(* callbacks) therefore records a start time that lies ahead of the        *)
(* timestamp of the first tick.  now is the timestamp the next frame       *)
(* carries; ClockLeads is how far performance.now() is ahead of it when    *)
(* the effect runs.  Every run is played to its end.                       *)
(***************************************************************************)
ClockLeads == {0, 5}

OnStartAnimationLate(lead) ==
  /\ routeData # Null
  /\ ~isPlaying
  /\ mapZoom[2] = 1
  /\ now + lead + durationMs <= MaxTime
  /\ isPlaying' = TRUE
  /\ \E s \in {Commit(Cur, TRUE, FALSE, TRUE, routeData, 0, now + lead)} : Assign(s)
  /\ lastOp' = "start"
  /\ runTicks' = 0
  /\ runCompletions' = 0
  /\ UNCHANGED <<routeData, now, frameRanNow, inFlight, lastCall, lastRequested>>

NextEarlyFrames ==
  \/ /\ routeData = Null
     /\ \E route \in FrameRoutes \cup {TwoPointRoute}, fitZoom \in FrameFitZooms :
          SetRouteData(route, fitZoom)
  \/ \E lead \in ClockLeads : OnStartAnimationLate(lead)
  \/ Tick
  \/ AdvanceFrame

SpecEarlyFrames == Init /\ [][NextEarlyFrames]_vars

(***************************************************************************)
(* Route generation: App.handleGenerateRoute is called with a waypoint     *)
(* list, awaits getMultiStopRoute and stores the route.  The call is two   *)
(* steps, before and after the await.  Here one call is outstanding at a   *)
(* time, and once a route is stored only calls with too few waypoints      *)
(* follow; a GeoJSON line has two or more positions.                       *)
(***************************************************************************)
ServiceGrid == {PA, PC}
ServiceModes == {CAR, TRAIN}
MaxWaypoints == 3
WaypointLists ==
  SeqsUpTo({Waypoint(c, m) : c \in ServiceGrid, m \in ServiceModes}, MaxWaypoints)
OkGeometries == {<<PB, PD, PC>>}
Responses == {FetchFailed} \cup {FetchOk(g, 7, 3) : g \in OkGeometries}

\* handleGenerateRoute up to the await: setIsLoading(true); setIsPlaying(false)
HandleGenerateRoute(waypoints) ==
  /\ isPlaying' = FALSE
  /\ \E s \in {Commit(Cur, isPlaying, FALSE, FALSE, routeData, 0, now)} : Assign(s)
  /\ inFlight' = Append(inFlight, waypoints)
  /\ lastRequested' = Some(waypoints)
  /\ lastOp' = "generate"
  /\ UNCHANGED <<routeData, now, frameRanNow, runTicks, runCompletions, lastCall>>

\* handleGenerateRoute after the await: setRouteData(route), or the catch
\* branch; then setIsLoading(false)
\* for the k-th of the calls that are waiting
ResolveCall(k, responses, fitZoom) ==
  /\ k \in 1..Len(inFlight)
  /\ Len(responses) = Len(inFlight[k]) - 1 \/ (responses = <<>> /\ Len(inFlight[k]) < 2)
  /\ inFlight' = SubSeq(inFlight, 1, k - 1) \o SubSeq(inFlight, k + 1, Len(inFlight))
  /\ \E r \in {getMultiStopRoute(inFlight[k], responses)} :
       /\ lastCall' = Some([waypoints |-> inFlight[k], responses |-> responses,
                            failed |-> r.failed])
       /\ IF r.failed
          THEN /\ \E s \in {Commit(Cur, FALSE, FALSE, isPlaying, routeData, 0, now)} : Assign(s)
               /\ lastOp' = "rerender"
               /\ UNCHANGED <<routeData, runTicks, runCompletions>>
          ELSE /\ routeData' = Some(r.route)
               /\ \E s \in {Commit(Cur, FALSE, TRUE, isPlaying, Some(r.route), fitZoom, now)} :
                    Assign(s)
               /\ lastOp' = "route"
               /\ runTicks' = 0
               /\ runCompletions' = 0
  /\ UNCHANGED <<isPlaying, now, frameRanNow, lastRequested>>

\* the call that has waited longest comes back
ResolveRoute(responses, fitZoom) == ResolveCall(1, responses, fitZoom)

NextService ==
  \/ /\ inFlight = <<>>
     /\ \E waypoints \in WaypointLists :
          /\ routeData = Null \/ Len(waypoints) < 2
          /\ HandleGenerateRoute(waypoints)
  \/ \E responses \in SeqsUpTo(Responses, MaxWaypoints - 1), fitZoom \in FitZooms :
       ResolveRoute(responses, fitZoom)

SpecService == Init /\ [][NextService]_vars

(***************************************************************************)
(* Route generation next to playback.  ControlPanel's effect calls         *)
(* onGenerateRoute only while the playing flag is false (it returns when   *)
(* isPlaying is true, and its cleanup clears the timer when the flag       *)
(* changes); a call may be made while an earlier one still waits, the      *)
(* calls come back in any order, and the play button works while calls     *)
(* wait.  Two waypoint lists that differ in their modes.                   *)
(***************************************************************************)
MaxInFlight == 2
CarTrip == <<Waypoint(PA, CAR), Waypoint(PC, CAR)>>
TrainTrip == <<Waypoint(PA, TRAIN), Waypoint(PC, TRAIN)>>
RaceLists == {CarTrip, TrainTrip}

NextRace ==
  \/ /\ ~isPlaying
     /\ Len(inFlight) < MaxInFlight
     /\ \E waypoints \in RaceLists : HandleGenerateRoute(waypoints)
  \/ \E k \in 1..MaxInFlight, responses \in SeqsUpTo(Responses, 1), fitZoom \in FitZooms :
       ResolveCall(k, responses, fitZoom)
  \/ OnStartAnimation
  \/ /\ isPlaying
     /\ OnPauseAnimation

SpecRace == Init /\ [][NextRace]_vars

\* Fairness: the browser runs a pending frame request, and time advances.
LiveSpec == Init /\ [][Next]_vars /\ WF_vars(Tick) /\ WF_vars(AdvanceTime)

(***************************************************************************)
(* Shorthands for the properties.                                          *)
(***************************************************************************)
\* This step is a tick (a frame request ran animate).
TickStep == runTicks' = runTicks + 1
\* ... and it observed elapsed >= 90000 ms.
TerminalTickStep == TickStep /\ now - startTimeRef >= durationMs
\* A start request: the playing flag goes from false to true.
StartStep == ~isPlaying /\ isPlaying'
LastPathPoint == pathDataRef[Len(pathDataRef)]

(***************************************************************************)
(* C1.  The completion callback is invoked exactly once per run that       *)
(* reaches a tick with elapsed >= 90000 ms, on that tick: a terminal tick  *)
(* makes exactly one call; a call is made only by a terminal tick and only *)
(* when the run has made none yet (so never by a pause or by a route       *)
(* replacement); a run never has more than one call.                       *)
(***************************************************************************)
C1_CompletionExactlyOnce ==
  /\ [][TerminalTickStep => runCompletions' = runCompletions + 1]_vars
  /\ [][runCompletions' > runCompletions =>
          TerminalTickStep /\ runCompletions = 0 /\ runCompletions' = 1]_vars
  /\ [](runCompletions <= 1)

C1_Witness ==
  /\ lastOp = "tick"
  /\ runCompletions = 1
  /\ now - startTimeRef >= durationMs

(***************************************************************************)
(* C2.  The tick that observes rawProgress >= 1 puts the vehicle exactly   *)
(* on the last PathPoint and leaves no frame request pending; after the    *)
(* completion no tick is pending until the next start.                     *)
(***************************************************************************)
C2_TerminalTickPinsAndStops ==
  /\ [][TerminalTickStep =>
          /\ vehicleMarkerRef' # Null
          /\ Deref(vehicleMarkerRef').latlng =
               LatLng(R(LastPathPoint.lat), R(LastPathPoint.lng))
          /\ rafPending' = {}
          /\ ~isAnimatingRef']_vars
  /\ [](runCompletions >= 1 => rafPending = {})

C2_Witness ==
  /\ lastOp = "tick"
  /\ runCompletions = 1
  /\ rafPending = {}
  /\ Len(pathDataRef) >= 2
  /\ Deref(vehicleMarkerRef).latlng = LatLng(R(LastPathPoint.lat), R(LastPathPoint.lng))
  /\ pathDataRef[1].lat # LastPathPoint.lat

(***************************************************************************)
(* C3.  Every start on a path of >= 2 points begins a fresh run: start     *)
(* time and start zoom are captured at the start, the finished segments    *)
(* and the live polyline are empty, one tick is pending and the target     *)
(* distance at the moment of the start is 0.                               *)
(***************************************************************************)
C3_StartIsFresh ==
  [][StartStep /\ Len(pathDataRef) >= 2 =>
       /\ isAnimatingRef'
       /\ startTimeRef' = now
       /\ startZoomRef' = mapZoom
       /\ finishedSegmentsLayerRef' = Some(<<>>)
       /\ currentSegmentPointsRef' = <<>>
       /\ Deref(currentSegmentPolylineRef').latlngs = <<>>
       /\ Cardinality(rafPending') = 1
       /\ RatMul(R(totalDistanceRef'), RatMin(Rat(now' - startTimeRef', durationMs), R(1))) = R(0)
    ]_vars

\* a restart after ticks of an earlier run moved the camera to the follow zoom
C3_Witness ==
  /\ lastOp = "start"
  /\ isAnimatingRef
  /\ startTimeRef > 0
  /\ startZoomRef = R(FOLLOW_ZOOM_LEVEL)
  /\ currentSegmentPointsRef = <<>>
  /\ totalDistanceRef > 0

(***************************************************************************)
(* C4.  While the playing flag is false no tick is pending, so none runs   *)
(* and no completion callback fires between a pause and the next start;    *)
(* a pause with no tick pending changes neither the schedule, the run's    *)
(* data, the trail, the vehicle nor the camera.                            *)
(***************************************************************************)
C4_PauseCancels ==
  /\ [](~isPlaying => rafPending = {})
  /\ [][lastOp' = "pause" /\ rafPending = {} =>
          /\ rafPending' = {}
          /\ UNCHANGED <<pathDataRef, totalDistanceRef, startTimeRef, startZoomRef,
                         finishedSegmentsLayerRef, currentSegmentPolylineRef,
                         currentSegmentPointsRef, vehicleMarkerRef, mapCenter, mapZoom,
                         runCompletions, runTicks>>]_vars

\* paused in mid-run: the trail of the run is still there, nothing is pending
C4_Witness ==
  /\ lastOp = "pause"
  /\ ~isPlaying
  /\ runTicks >= 1
  /\ runCompletions = 0
  /\ currentSegmentPointsRef # <<>>
  /\ rafPending = {}

(***************************************************************************)
(* C5.  At most one animation tick is pending in every state; within a run *)
(* the start time and the total distance stay as they are and time does    *)
(* not go back, so the target distance never decreases from one tick of a  *)
(* run to the next.                                                        *)
(***************************************************************************)
TargetAt(start, total, time) ==
  RatMul(R(total), RatMin(Rat(time - start, durationMs), R(1)))

C5_OneTickPending ==
  /\ [](Cardinality(rafPending) <= 1)
  /\ [][isAnimatingRef /\ isAnimatingRef' /\ lastOp' # "route" =>
          /\ startTimeRef' = startTimeRef
          /\ totalDistanceRef' = totalDistanceRef
          /\ now' >= now
          /\ RatLe(TargetAt(startTimeRef, totalDistanceRef, now),
                   TargetAt(startTimeRef', totalDistanceRef', now'))]_vars

\* a tick is pending after an earlier tick of the run and a re-run of the effect
C5_Witness ==
  /\ lastOp = "rerender"
  /\ runTicks >= 1
  /\ isAnimatingRef
  /\ Cardinality(rafPending) = 1
  /\ now > startTimeRef

(***************************************************************************)
(* Shorthands: the leg list seen coordinate by coordinate, and the places  *)
(* of a path.                                                              *)
(***************************************************************************)
\* the number of coordinates in the legs before leg i
RECURSIVE LegOffset(_, _)
LegOffset(legs, i) ==
  IF i <= 1 THEN 0 ELSE LegOffset(legs, i - 1) + Len(legs[i - 1].coordinates)

PathMatchesLegs(path, legs) ==
  /\ Len(path) = LegOffset(legs, Len(legs) + 1)
  /\ \A i \in 1..Len(legs) : \A j \in 1..Len(legs[i].coordinates) :
       LET p == path[LegOffset(legs, i) + j]
       IN  /\ p.lat = legs[i].coordinates[j].lat
           /\ p.lng = legs[i].coordinates[j].lng
           /\ p.mode = legs[i].mode

RatBetween(x, a, b) ==
  \/ RatLe(R(a), x) /\ RatLe(x, R(b))
  \/ RatLe(R(b), x) /\ RatLe(x, R(a))

\* pos lies on the straight segment between two consecutive points of path
OnPath(pos, path) ==
  \E k \in 1..(Len(path) - 1) :
    LET a == path[k]
        b == path[k + 1]
    IN  /\ RatMul(RatSub(pos.lat, R(a.lat)), R(b.lng - a.lng))
             = RatMul(RatSub(pos.lng, R(a.lng)), R(b.lat - a.lat))
        /\ RatBetween(pos.lat, a.lat, b.lat)
        /\ RatBetween(pos.lng, a.lng, b.lng)

TrailPoints ==
  {currentSegmentPointsRef[k] : k \in 1..Len(currentSegmentPointsRef)}
  \cup (IF currentSegmentPolylineRef = Null THEN {}
        ELSE {Deref(currentSegmentPolylineRef).latlngs[k] :
                k \in 1..Len(Deref(currentSegmentPolylineRef).latlngs)})
  \cup (IF finishedSegmentsLayerRef = Null THEN {}
        ELSE UNION {{Deref(finishedSegmentsLayerRef)[n].latlngs[k] :
                       k \in 1..Len(Deref(finishedSegmentsLayerRef)[n].latlngs)} :
                    n \in 1..Len(Deref(finishedSegmentsLayerRef))})

TrailEmpty ==
  /\ currentSegmentPointsRef = <<>>
  /\ currentSegmentPolylineRef # Null => Deref(currentSegmentPolylineRef).latlngs = <<>>
  /\ finishedSegmentsLayerRef # Null => Deref(finishedSegmentsLayerRef) = <<>>

(***************************************************************************)
(* C6.  A route change cancels the pending tick and replaces path, total   *)
(* distance and trail in the same step: in every state the path is the     *)
(* current route's coordinates and the total distance its last cumulative  *)
(* distance, the trail is empty right after the change, and every point    *)
(* of the trail lies on the current path.                                  *)
(***************************************************************************)
C6_RouteReplacement ==
  /\ [](IF routeData = Null THEN pathDataRef = <<>>
        ELSE /\ PathMatchesLegs(pathDataRef, Deref(routeData).legs)
             /\ Len(pathDataRef) > 0 => totalDistanceRef = LastPathPoint.cumulativeDistance)
  /\ [](lastOp = "route" => TrailEmpty)
  /\ [](\A pos \in TrailPoints : OnPath(pos, pathDataRef))
  /\ [][lastOp' = "route" /\ now' = now => rafPending' \cap rafPending = {}]_vars

\* the route was replaced during playback, after a tick of the old run
C6_Witness ==
  /\ lastOp = "route"
  /\ isPlaying
  /\ isAnimatingRef
  /\ now > 0
  /\ startTimeRef = now
  /\ mapZoom = R(FOLLOW_ZOOM_LEVEL)
  /\ Cardinality(rafPending) = 1
  /\ TrailEmpty

(***************************************************************************)
(* C7.  A start request on a path of fewer than 2 points schedules no tick *)
(* and leaves start time, start zoom, trail, vehicle and camera as they    *)
(* are; no completion callback is made.                                    *)
(***************************************************************************)
C7_DegenerateStartIgnored ==
  [][StartStep /\ Len(pathDataRef) < 2 =>
       /\ rafPending' = {}
       /\ ~isAnimatingRef'
       /\ runCompletions' = 0
       /\ UNCHANGED <<pathDataRef, startTimeRef, startZoomRef, finishedSegmentsLayerRef,
                      currentSegmentPolylineRef, currentSegmentPointsRef,
                      vehicleMarkerRef, mapCenter, mapZoom>>]_vars

\* a start was requested on a single-point path, later than time 0
C7_Witness ==
  /\ lastOp = "start"
  /\ isPlaying
  /\ Len(pathDataRef) = 1
  /\ now > 0
  /\ rafPending = {}

(***************************************************************************)
(* C8.  A run in progress leads to its completion callback, unless it is   *)
(* paused or its route is replaced first (fair ticks, advancing time).     *)
(***************************************************************************)
C8_EventuallyCompletes ==
  (isPlaying /\ isAnimatingRef)
    ~> (\/ lastOp = "tick" /\ runCompletions = 1
        \/ lastOp \in {"pause", "route"})

\* a run completed although the effect ran again in between its ticks
C8_Witness ==
  /\ lastOp = "tick"
  /\ runCompletions = 1
  /\ runTicks >= 3
  /\ ~isPlaying
  /\ ~isAnimatingRef

(***************************************************************************)
(* C9.  Cumulative distance is 0 at the first point, never decreases       *)
(* along the path, increases between two consecutive points that differ,   *)
(* and the total distance is that of the last point.                       *)
(***************************************************************************)
C9_CumulativeDistance ==
  Len(pathDataRef) > 0 =>
    /\ pathDataRef[1].cumulativeDistance = 0
    /\ \A k \in 1..(Len(pathDataRef) - 1) :
         /\ pathDataRef[k].cumulativeDistance <= pathDataRef[k + 1].cumulativeDistance
         /\ (pathDataRef[k].lat # pathDataRef[k + 1].lat
               \/ pathDataRef[k].lng # pathDataRef[k + 1].lng)
              => pathDataRef[k].cumulativeDistance < pathDataRef[k + 1].cumulativeDistance
    /\ totalDistanceRef = LastPathPoint.cumulativeDistance

\* a path that moves, stands still and moves again
C9_Witness ==
  /\ Len(pathDataRef) = 4
  /\ pathDataRef[1].cumulativeDistance < pathDataRef[2].cumulativeDistance
  /\ pathDataRef[2].cumulativeDistance = pathDataRef[3].cumulativeDistance
  /\ pathDataRef[3].cumulativeDistance < pathDataRef[4].cumulativeDistance
  /\ totalDistanceRef = pathDataRef[4].cumulativeDistance

(***************************************************************************)
(* C10.  The path holds one PathPoint per leg coordinate, in leg order     *)
(* then coordinate order, with its leg's mode; a coordinate that ends one  *)
(* leg and starts the next is there twice, once per mode, at the same      *)
(* cumulative distance; an empty leg list gives an empty path of total     *)
(* distance 0.                                                             *)
(***************************************************************************)
C10_OnePointPerCoordinate ==
  routeData # Null =>
    LET legs == Deref(routeData).legs
    IN  /\ PathMatchesLegs(pathDataRef, legs)
        /\ \A i \in 1..(Len(legs) - 1) :
             (/\ Len(legs[i].coordinates) > 0
              /\ Len(legs[i + 1].coordinates) > 0
              /\ legs[i].coordinates[Len(legs[i].coordinates)] = legs[i + 1].coordinates[1])
             => LET k == LegOffset(legs, i + 1)
                IN  /\ pathDataRef[k].mode = legs[i].mode
                    /\ pathDataRef[k + 1].mode = legs[i + 1].mode
                    /\ pathDataRef[k].lat = pathDataRef[k + 1].lat
                    /\ pathDataRef[k].lng = pathDataRef[k + 1].lng
                    /\ pathDataRef[k].cumulativeDistance = pathDataRef[k + 1].cumulativeDistance
        /\ legs = <<>> => pathDataRef = <<>> /\ totalDistanceRef = 0

\* two legs of different modes that share their boundary coordinate
C10_Witness ==
  /\ routeData # Null
  /\ Len(Deref(routeData).legs) = 2
  /\ Len(pathDataRef) = 4
  /\ pathDataRef[2].mode # pathDataRef[3].mode
  /\ pathDataRef[2].lat = pathDataRef[3].lat
  /\ pathDataRef[2].lng = pathDataRef[3].lng
  /\ pathDataRef[1].lat # pathDataRef[2].lat

(***************************************************************************)
(* Shorthands for the tick that is about to run: its elapsed time and      *)
(* target distance, and whether it is a tick that interpolates.            *)
(***************************************************************************)
ElapsedNow == now - startTimeRef
TargetNow == TargetAt(startTimeRef, totalDistanceRef, now)
InterpolatingTickStep == TickStep /\ ElapsedNow < durationMs /\ Len(pathDataRef) >= 2
VehiclePos == Deref(vehicleMarkerRef).latlng
PointPos(p) == LatLng(R(p.lat), R(p.lng))

(***************************************************************************)
(* C11.  A tick whose target distance is 0 puts the vehicle exactly on the *)
(* first PathPoint and takes the first PathPoint's mode, which is the      *)
(* first leg's mode; also when the first segment has zero length.          *)
(***************************************************************************)
C11_InterpolateAtZero ==
  [][InterpolatingTickStep /\ TargetNow = R(0) =>
       /\ Deref(vehicleMarkerRef').latlng = PointPos(pathDataRef[1])
       /\ prevModeRef' = pathDataRef[1].mode
       /\ Len(Deref(routeData).legs[1].coordinates) > 0
            => prevModeRef' = Deref(routeData).legs[1].mode]_vars

\* the first tick of a run, at elapsed 0, on a route whose first leg stands
\* still
C11_Witness ==
  /\ lastOp = "tick"
  /\ runTicks = 1
  /\ now = startTimeRef
  /\ Len(pathDataRef) >= 2
  /\ pathDataRef[1].cumulativeDistance = pathDataRef[2].cumulativeDistance
  /\ totalDistanceRef > 0
  /\ VehiclePos = PointPos(pathDataRef[1])
  /\ prevModeRef = pathDataRef[1].mode

(***************************************************************************)
(* Mode-transition boundaries: PathPoint k ends a leg and PathPoint k + 1  *)
(* starts the next leg at the same place in another mode.                  *)
(***************************************************************************)
IsBoundary(path, k) ==
  /\ k \in 1..(Len(path) - 1)
  /\ path[k].mode # path[k + 1].mode
  /\ path[k].lat = path[k + 1].lat
  /\ path[k].lng = path[k + 1].lng
\* the first PathPoint at the cumulative distance of PathPoint k
FirstAt(path, k) ==
  SetMin({j \in 1..k : path[j].cumulativeDistance = path[k].cumulativeDistance})
AtBoundary(k) ==
  /\ IsBoundary(pathDataRef, k)
  /\ TargetNow = R(pathDataRef[k].cumulativeDistance)

(***************************************************************************)
(* C12, as stated: a tick whose target distance is exactly the cumulative  *)
(* distance of a mode-transition boundary takes the incoming leg's mode    *)
(* (that of PathPoint k + 1), at the boundary point.                       *)
(***************************************************************************)
C12_BoundarySelectsIncomingMode ==
  [][InterpolatingTickStep =>
       \A k \in 1..(Len(pathDataRef) - 1) :
         AtBoundary(k) =>
           /\ Deref(vehicleMarkerRef').latlng = PointPos(pathDataRef[k])
           /\ prevModeRef' = pathDataRef[k + 1].mode]_vars

(***************************************************************************)
(* C12, amended: such a tick puts the vehicle exactly on the boundary      *)
(* point and takes the mode of the PathPoint before the first PathPoint at *)
(* that cumulative distance (the first PathPoint's mode if there is none   *)
(* before): the outgoing leg's mode when that leg has positive length,     *)
(* reached with ratio 1.                                                   *)
(***************************************************************************)
C12_BoundaryKeepsOutgoingMode ==
  [][InterpolatingTickStep =>
       \A k \in 1..(Len(pathDataRef) - 1) :
         AtBoundary(k) =>
           LET j == FirstAt(pathDataRef, k)
           IN  /\ Deref(vehicleMarkerRef').latlng = PointPos(pathDataRef[k])
               /\ prevModeRef' = pathDataRef[IF j = 1 THEN 1 ELSE j - 1].mode
               /\ (/\ k > 1
                   /\ pathDataRef[k - 1].mode = pathDataRef[k].mode
                   /\ pathDataRef[k - 1].cumulativeDistance < pathDataRef[k].cumulativeDistance)
                  => /\ prevModeRef' = pathDataRef[k].mode
                     /\ Interpolate(pathDataRef, TargetNow).ratio = R(1)]_vars

\* a tick ran exactly at the end of a leg of positive length and the vehicle
\* stands on the boundary in the outgoing leg's mode
C12_Witness ==
  /\ lastOp = "tick"
  /\ isPlaying
  /\ \E k \in 2..(Len(pathDataRef) - 1) :
       /\ AtBoundary(k)
       /\ pathDataRef[k - 1].cumulativeDistance < pathDataRef[k].cumulativeDistance
       /\ VehiclePos = PointPos(pathDataRef[k])
       /\ prevModeRef = pathDataRef[k].mode
       /\ prevModeRef # pathDataRef[k + 1].mode

(***************************************************************************)
(* C13.  After a tick that interpolates, the direction flag (the recorded  *)
(* one and the vehicle icon's) is true exactly when the end point of the   *)
(* selected segment has a strictly smaller longitude than its start point; *)
(* false for equal or growing longitude, whatever the latitudes.           *)
(***************************************************************************)
SelectedP1 == pathDataRef[NextIdx(pathDataRef, TargetNow)]
SelectedP2 == pathDataRef[NextIdx(pathDataRef, TargetNow) + 1]

C13_DirectionFlag ==
  [][InterpolatingTickStep =>
       /\ prevFlippedRef' = (SelectedP2.lng < SelectedP1.lng)
       /\ Deref(vehicleMarkerRef').icon.isFlipped = prevFlippedRef'
       /\ SelectedP2.lng >= SelectedP1.lng => ~prevFlippedRef']_vars

\* flipped on a segment that goes west and north, after segments that went
\* south at equal longitude and east
C13_Witness ==
  /\ lastOp = "tick"
  /\ isPlaying
  /\ prevFlippedRef
  /\ Deref(vehicleMarkerRef).icon.isFlipped
  /\ SelectedP2.lng < SelectedP1.lng
  /\ SelectedP2.lat > SelectedP1.lat
  /\ pathDataRef[1].lng = pathDataRef[2].lng
  /\ pathDataRef[1].lat > pathDataRef[2].lat

(***************************************************************************)
(* The maximal runs of equal mode along a path, as the list of their modes.*)
(***************************************************************************)
RunStarts(path) == {k \in 1..Len(path) : k = 1 \/ path[k].mode # path[k - 1].mode}
RunModes(path) ==
  LET S == RunStarts(path)
  IN  [i \in 1..Cardinality(S) |->
         path[CHOOSE k \in S : Cardinality({j \in S : j <= k}) = i].mode]
FinishedSegments == Deref(finishedSegmentsLayerRef)
LivePolyline == Deref(currentSegmentPolylineRef)

(***************************************************************************)
(* C14.  When a run has completed, the finished segments are one per mode  *)
(* run but the last, in route order and each in its run's color, and the   *)
(* live polyline has the color of the last run (for car, train, car: two   *)
(* finished segments, car then train, and a live car polyline).            *)
(***************************************************************************)
C14_OneFrozenSegmentPerModeRun ==
  (lastOp = "tick" /\ runCompletions = 1 /\ Len(pathDataRef) >= 2) =>
    LET modes == RunModes(pathDataRef)
    IN  /\ Len(FinishedSegments) = Len(modes) - 1
        /\ \A i \in 1..Len(FinishedSegments) :
             i <= Len(modes) => FinishedSegments[i].color = COLORS(modes[i])
        /\ LivePolyline.color = COLORS(modes[Len(modes)])

(***************************************************************************)
(* C15, as stated: the terminal tick clears the finished segments and      *)
(* empties the live polyline.                                              *)
(***************************************************************************)
C15_CompletionClearsTrail ==
  [][TerminalTickStep => TrailEmpty']_vars

(***************************************************************************)
(* C15, amended: the terminal tick keeps the trail: the finished segments  *)
(* stay (at most one more is added) and the live polyline ends on the last *)
(* PathPoint; the trail then stays as it is until the next start or route  *)
(* change, and it is the start that empties it.                            *)
(***************************************************************************)
IsPrefix(a, b) == Len(a) <= Len(b) /\ SubSeq(b, 1, Len(a)) = a
TrailVars == <<finishedSegmentsLayerRef, currentSegmentPolylineRef, currentSegmentPointsRef>>

C15_CompletionKeepsTrail ==
  /\ [][TerminalTickStep =>
          /\ IsPrefix(FinishedSegments, FinishedSegments')
          /\ Len(FinishedSegments') <= Len(FinishedSegments) + 1
          /\ currentSegmentPointsRef' # <<>>
          /\ currentSegmentPointsRef'[Len(currentSegmentPointsRef')] = PointPos(LastPathPoint)
          /\ LivePolyline'.latlngs = currentSegmentPointsRef']_vars
  /\ [][runCompletions = 1 /\ ~StartStep /\ lastOp' # "route" => UNCHANGED TrailVars]_vars
  /\ [][StartStep /\ Len(pathDataRef) >= 2 => TrailEmpty']_vars

\* a completed run whose trail is still on the map: finished segments and a
\* live polyline that ends on the last PathPoint
C15_Witness ==
  /\ lastOp = "tick"
  /\ runCompletions = 1
  /\ ~isPlaying
  /\ Len(pathDataRef) >= 2
  /\ Len(FinishedSegments) >= 1
  /\ Len(currentSegmentPointsRef) >= 2
  /\ currentSegmentPointsRef[Len(currentSegmentPointsRef)] = PointPos(LastPathPoint)

(***************************************************************************)
(* C16.  The zoom a tick gives the camera is the start zoom z0 at elapsed  *)
(* 0, exactly 10 from elapsed 3000 ms on, and in between                   *)
(* z0 + (10 - z0) * (1 - (1 - elapsed/3000)^3), which lies between z0 and  *)
(* 10; from one tick of a run to the next it never moves away from 10.     *)
(***************************************************************************)
RatAbs(a) == <<Abs(a[1]), a[2]>>
DistanceToFollowZoom(z) == RatAbs(RatSub(R(10), z))
\* z0 + (10 - z0) * (1 - ((3000 - e) / 3000)^3)
EaseOutCubicZoom(z0, e) ==
  LET r == Rat(3000 - e, 3000)
      cube == RatMul(RatMul(r, r), r)
  IN  RatAdd(z0, RatMul(RatSub(R(10), z0), RatSub(R(1), cube)))

C16_ZoomInterpolation ==
  [][InterpolatingTickStep =>
       /\ ElapsedNow = 0 => mapZoom' = startZoomRef
       /\ ElapsedNow >= 3000 => mapZoom' = R(10)
       /\ (0 < ElapsedNow /\ ElapsedNow < 3000) =>
            /\ mapZoom' = EaseOutCubicZoom(startZoomRef, ElapsedNow)
            /\ \/ RatLe(startZoomRef, mapZoom') /\ RatLe(mapZoom', R(10))
               \/ RatLe(R(10), mapZoom') /\ RatLe(mapZoom', startZoomRef)
            /\ RatLe(DistanceToFollowZoom(mapZoom'), DistanceToFollowZoom(startZoomRef))
       /\ RatLe(DistanceToFollowZoom(mapZoom'), DistanceToFollowZoom(mapZoom))]_vars

\* one second into a run that started at zoom 4: 4 + 6 * 19/27 = 74/9
C16_Witness ==
  /\ lastOp = "tick"
  /\ isPlaying
  /\ ElapsedNow = 1000
  /\ startZoomRef = R(4)
  /\ mapZoom = Rat(74, 9)

(***************************************************************************)
(* C17.  In every state, each background polyline that exists is           *)
(* invisible with zero width if the playing flag is true, and visible if   *)
(* the flag is false.                                                      *)
(***************************************************************************)
C17_BackgroundHiddenIffPlaying ==
  \A i \in 1..Len(bgPolylinesRef) :
    IF isPlaying
    THEN bgPolylinesRef[i].opacity = R(0) /\ bgPolylinesRef[i].weight = 0
    ELSE RatLt(R(0), bgPolylinesRef[i].opacity) /\ bgPolylinesRef[i].weight > 0

(***************************************************************************)
(* C18.  A pause leaves the finished segments, the live polyline (points   *)
(* and color), the vehicle (position and icon) and the camera view exactly *)
(* as they were, and they stay so while the playing flag is false, until   *)
(* the next start.                                                         *)
(***************************************************************************)
FrameVars == <<finishedSegmentsLayerRef, currentSegmentPolylineRef, currentSegmentPointsRef,
               vehicleMarkerRef, mapCenter, mapZoom>>

C18_PauseFrameStaysUntilStart ==
  /\ [][lastOp' = "pause" => UNCHANGED FrameVars]_vars
  /\ [][lastOp = "pause" /\ runTicks >= 1 /\ runCompletions = 0 /\ ~StartStep
          => UNCHANGED FrameVars]_vars

\* What does hold: the pause itself changes none of these, and they stay
\* until the next start as long as no new route arrives.
PauseKeepsFrameWhileRouteStays ==
  /\ [][lastOp' = "pause" => UNCHANGED FrameVars]_vars
  /\ [][~isPlaying /\ ~StartStep /\ lastOp' # "route" => UNCHANGED FrameVars]_vars

(***************************************************************************)
(* C19.  On a tick whose active mode differs from the recorded mode, the   *)
(* live polyline's points before the tick are added as one finished        *)
(* segment in the color of the recorded mode, unless the live polyline was *)
(* empty, in which case nothing is added.  Finished segments are never     *)
(* empty, and no other step but a start or a route change touches them.    *)
(***************************************************************************)
ActiveMode == IF ElapsedNow >= durationMs THEN LastPathPoint.mode ELSE SelectedP1.mode
ModeChangeTickStep == TickStep /\ ActiveMode # prevModeRef

C19_FreezeOnModeChange ==
  /\ [][ModeChangeTickStep =>
          IF LivePolyline.latlngs = <<>>
          THEN UNCHANGED finishedSegmentsLayerRef
          ELSE FinishedSegments' = Append(FinishedSegments,
                                          [latlngs |-> LivePolyline.latlngs,
                                           color |-> COLORS(prevModeRef)])]_vars
  /\ [](finishedSegmentsLayerRef # Null =>
          \A i \in 1..Len(FinishedSegments) : FinishedSegments[i].latlngs # <<>>)
  /\ [][~ModeChangeTickStep /\ ~StartStep /\ lastOp' # "route" =>
          UNCHANGED finishedSegmentsLayerRef]_vars

\* just after the change from car to train: the car trail is frozen in the
\* car color and the live polyline has started again in the train color
C19_Witness ==
  /\ lastOp = "tick"
  /\ isPlaying
  /\ prevModeRef = TRAIN
  /\ Len(FinishedSegments) = 1
  /\ FinishedSegments[1].color = COLORS(CAR)
  /\ Len(FinishedSegments[1].latlngs) >= 2
  /\ LivePolyline.color = COLORS(TRAIN)
  /\ Len(currentSegmentPointsRef) = 2

(***************************************************************************)
(* C20.  At the end of a tick whose active mode differs from the recorded  *)
(* mode, the live polyline holds exactly one point, the new interpolated   *)
(* position.                                                               *)
(***************************************************************************)
C20_LiveHasOnePointAfterModeChange ==
  [][ModeChangeTickStep =>
       /\ currentSegmentPointsRef' = <<VehiclePos'>>
       /\ LivePolyline'.latlngs = <<VehiclePos'>>]_vars

\* What does hold: the live polyline holds the new position twice, once from
\* the reset of the segment and once from the growing of the trail.
LiveHasNewPositionTwiceAfterModeChange ==
  [][ModeChangeTickStep =>
       /\ currentSegmentPointsRef' = <<VehiclePos', VehiclePos'>>
       /\ LivePolyline'.latlngs = currentSegmentPointsRef'
       /\ LivePolyline'.color = COLORS(ActiveMode)]_vars

(***************************************************************************)
(* C21.  On a tick whose active mode equals the recorded mode, the live    *)
(* polyline grows by exactly one point, the tick's position appended at    *)
(* the end; its earlier points keep their order, and the finished segments *)
(* are left as they are.                                                   *)
(***************************************************************************)
\* the position a tick at the present time hands to updateMapState
TickPos ==
  IF ElapsedNow >= durationMs
  THEN PointPos(LastPathPoint)
  ELSE LET ip == Interpolate(pathDataRef, TargetNow) IN LatLng(ip.lat, ip.lng)

SameModeTickStep == TickStep /\ ActiveMode = prevModeRef

C21_SameModeTickAppends ==
  [][SameModeTickStep =>
       /\ LivePolyline'.latlngs = Append(LivePolyline.latlngs, TickPos)
       /\ currentSegmentPointsRef' = LivePolyline'.latlngs
       /\ VehiclePos' = TickPos
       /\ UNCHANGED finishedSegmentsLayerRef]_vars

\* a live polyline grown by same-mode ticks: three distinct points in the
\* order of travel, the last one the vehicle's position
C21_Witness ==
  /\ lastOp = "tick"
  /\ routeData = Some(TwoPointRoute)
  /\ currentSegmentPointsRef = <<PointPos(pathDataRef[1]),
                                 LatLng(R(2), Rat(3, 2)),
                                 PointPos(pathDataRef[2])>>
  /\ VehiclePos = PointPos(pathDataRef[2])
  /\ FinishedSegments = <<>>

(***************************************************************************)
(* C22.  The trail changes color exactly at the mode boundary: when a      *)
(* mode change freezes the live polyline, the finished segment ends at the *)
(* position of a boundary PathPoint and the new live polyline starts at    *)
(* that same position, so the two join without a gap.                      *)
(***************************************************************************)
LastOf(seq) == seq[Len(seq)]
BoundaryPositions ==
  {PointPos(pathDataRef[k]) : k \in {j \in 2..Len(pathDataRef) :
                                       pathDataRef[j].mode # pathDataRef[j - 1].mode}}

C22_ColorChangesAtBoundary ==
  [][ModeChangeTickStep /\ LivePolyline.latlngs # <<>> =>
       /\ LastOf(LastOf(FinishedSegments').latlngs) \in BoundaryPositions
       /\ LivePolyline'.latlngs[1] = LastOf(LastOf(FinishedSegments').latlngs)]_vars

\* What does hold: the finished segment ends where the vehicle was on the
\* tick before, and the new live polyline starts where it is now.
ColorChangesBetweenTicks ==
  [][ModeChangeTickStep /\ LivePolyline.latlngs # <<>> =>
       /\ LastOf(LastOf(FinishedSegments').latlngs) = VehiclePos
       /\ LivePolyline'.latlngs[1] = TickPos]_vars

(***************************************************************************)
(* C23.  Whenever the segment (p1, p2) the interpolator selects has zero   *)
(* length, the ratio is 0 and the tick puts the vehicle and the camera     *)
(* exactly on p1, with p1's mode as the active mode.                       *)
(***************************************************************************)
ZeroLengthSelected == SelectedP1.cumulativeDistance = SelectedP2.cumulativeDistance

C23_ZeroLengthSegment ==
  [][InterpolatingTickStep /\ ZeroLengthSelected =>
       /\ Interpolate(pathDataRef, TargetNow).ratio = R(0)
       /\ VehiclePos' = PointPos(SelectedP1)
       /\ mapCenter' = PointPos(SelectedP1)
       /\ LastOf(currentSegmentPointsRef') = PointPos(SelectedP1)
       /\ prevModeRef' = SelectedP1.mode]_vars

\* half way through a run on a route of total distance 0: the second tick
\* has again selected the zero-length segment and left the vehicle on p1
C23_Witness ==
  /\ lastOp = "tick"
  /\ isPlaying
  /\ routeData = Some(StandStillRoute)
  /\ now - startTimeRef = 45000
  /\ runTicks = 2
  /\ VehiclePos = PointPos(pathDataRef[1])
  /\ mapCenter = PointPos(pathDataRef[1])

(***************************************************************************)
(* C24.  On every tick of a run rawProgress lies in [0, 1] and the target  *)
(* distance in [0, totalDistance]; on every non-terminal tick the selected *)
(* index lies between 1 and the last index, the ratio lies in [0, 1], and  *)
(* the vehicle is put on the straight segment between two consecutive      *)
(* PathPoints.                                                             *)
(***************************************************************************)
C24_TickStaysInRange ==
  /\ [][TickStep =>
          /\ RatLe(R(0), RawProgress(Cur, now))
          /\ RatLe(RawProgress(Cur, now), R(1))
          /\ RatLe(R(0), TargetNow)
          /\ RatLe(TargetNow, R(totalDistanceRef))]_vars
  /\ [][InterpolatingTickStep =>
          LET ip == Interpolate(pathDataRef, TargetNow)
          IN  /\ ip.nextIdx \in 1..(Len(pathDataRef) - 1)
              /\ RatLe(R(0), ip.ratio)
              /\ RatLe(ip.ratio, R(1))
              /\ OnPath(VehiclePos', pathDataRef)]_vars

(***************************************************************************)
(* C25.  Every non-terminal tick leaves the camera centered on that tick's *)
(* position at that tick's zoom.  The terminal tick puts the vehicle on    *)
(* the last PathPoint and leaves the camera view as it was, so after       *)
(* completion the view is still the one from before the terminal tick.     *)
(***************************************************************************)
C25_CameraFollowsUntilTerminal ==
  /\ [][InterpolatingTickStep =>
          /\ mapCenter' = TickPos
          /\ mapZoom' = CurrentZoom(Cur, now)
          /\ VehiclePos' = mapCenter']_vars
  /\ [][TerminalTickStep =>
          /\ VehiclePos' = PointPos(LastPathPoint)
          /\ UNCHANGED <<mapCenter, mapZoom>>]_vars

\* a completed run: the vehicle is on the last PathPoint, the camera is
\* still where the tick at half the duration left it
C25_Witness ==
  /\ lastOp = "tick"
  /\ runCompletions = 1
  /\ runTicks = 3
  /\ routeData = Some(TwoPointRoute)
  /\ VehiclePos = PointPos(LastPathPoint)
  /\ mapCenter = LatLng(R(2), Rat(3, 2))
  /\ mapZoom = R(FOLLOW_ZOOM_LEVEL)

(***************************************************************************)
(* C26.  getMultiStopRoute called with n >= 2 waypoints resolves to        *)
(* exactly n - 1 legs in waypoint order, leg i with the mode to next of    *)
(* waypoint i, whichever requests fail; a leg whose request fails is the   *)
(* straight leg from waypoint i to waypoint i + 1 with distance 0, the     *)
(* other legs carry the geometry the server sent, so every leg has two     *)
(* points or more.  With fewer than 2 waypoints the call fails and the     *)
(* route stays the one it was.                                             *)
(***************************************************************************)
CallReturned == Len(inFlight') < Len(inFlight)

TickFlip ==
  IF ElapsedNow >= durationMs THEN FALSE ELSE IsFlipped(SelectedP1, SelectedP2)

C27_IconAndColorFollowMode ==
  /\ [][TickStep =>
          /\ Deref(vehicleMarkerRef').icon = createLeafletIcon(ActiveMode, TickFlip)
          /\ prevModeRef' = ActiveMode
          /\ prevFlippedRef' = TickFlip
          /\ LivePolyline'.color = COLORS(ActiveMode)]_vars
  /\ [](currentSegmentPolylineRef # Null => LivePolyline.color = COLORS(prevModeRef))

\* on the last leg of the round trip, travelling west by car after the
\* train: the icon is the flipped car and the live polyline is car-colored
C27_Witness ==
  /\ lastOp = "tick"
  /\ isPlaying
  /\ routeData = Some(RoundTripRoute)
  /\ Len(FinishedSegments) = 2
  /\ prevModeRef = CAR
  /\ prevFlippedRef
  /\ Deref(vehicleMarkerRef).icon = createLeafletIcon(CAR, TRUE)
  /\ LivePolyline.color = COLORS(CAR)

(***************************************************************************)
(* C28.  A re-run of the animation effect while a run is in progress (the  *)
(* playing flag stays true, only the completion callback is a new          *)
(* function) cancels the pending tick and requests a new one, and keeps    *)
(* the run's start time and start zoom, the finished segments, the live    *)
(* polyline, the vehicle and the camera.                                   *)
(***************************************************************************)
\* the step is a commit in which neither the playing flag nor the route changes
RerenderInRunStep ==
  /\ lastOp' = "rerender"
  /\ now' = now
  /\ isPlaying
  /\ Len(pathDataRef) >= 2

C28_RerenderKeepsRun ==
  [][RerenderInRunStep =>
       /\ isAnimatingRef /\ isAnimatingRef'
       /\ UNCHANGED <<startTimeRef, startZoomRef, TrailVars, vehicleMarkerRef,
                      mapCenter, mapZoom, pathDataRef, totalDistanceRef>>
       /\ Cardinality(rafPending') = 1
       /\ rafPending' \cap rafPending = {}
       /\ rafPending' = {animationFrameRef'}]_vars

\* a re-render half way through a run, after a mode change: the trail of
\* the run is still there and a tick is pending
C28_Witness ==
  /\ lastOp = "rerender"
  /\ isPlaying
  /\ isAnimatingRef
  /\ now - startTimeRef = 45000
  /\ runTicks = 2
  /\ Len(FinishedSegments) = 1
  /\ Len(currentSegmentPointsRef) = 2
  /\ rafPending = {animationFrameRef}

(***************************************************************************)
(* C29.  When the route is replaced by one with two or more PathPoints     *)
(* while the playing flag is true, the flag stays true, a tick is pending  *)
(* after the replacement, and a new run has begun on the new route: start  *)
(* time now, target distance 0, empty trail, the vehicle on the first      *)
(* PathPoint.  And whenever the playing flag is true and the path has two  *)
(* or more points, a run is in progress and exactly one tick is pending.   *)
(***************************************************************************)
RouteReplacedWhilePlayingStep ==
  /\ lastOp' = "route"
  /\ now' = now
  /\ isPlaying
  /\ Len(pathDataRef') >= 2

CurrentPath == IF routeData = Null THEN <<>> ELSE BuildPath(Deref(routeData)).points

C31_TerminalTickKeepsOrientation ==
  [][TerminalTickStep =>
       /\ prevFlippedRef' = prevFlippedRef
       /\ Deref(vehicleMarkerRef').icon.isFlipped = Deref(vehicleMarkerRef).icon.isFlipped]_vars

\* What does hold: after the terminal tick the icon is the unflipped icon of
\* the last PathPoint's mode, whatever the direction of arrival.
TerminalTickUnflipsIcon ==
  [][TerminalTickStep =>
       /\ ~prevFlippedRef'
       /\ Deref(vehicleMarkerRef').icon = createLeafletIcon(LastPathPoint.mode, FALSE)]_vars

(***************************************************************************)
(* C32.  Route generation and playback do not race: the route does not     *)
(* change while the playing flag is true, and when no call is waiting any  *)
(* more the route is the one computed from the waypoint list of the call   *)
(* made last, in whatever order the calls came back.                       *)
(***************************************************************************)
\* route is what getMultiStopRoute resolves to for waypoints, for some answers
RouteIsFrom(route, waypoints) ==
  \E responses \in SeqsUpTo(Responses, Len(waypoints) - 1) :
    /\ Len(responses) = Len(waypoints) - 1
    /\ ~getMultiStopRoute(waypoints, responses).failed
    /\ route = getMultiStopRoute(waypoints, responses).route

C32_GenerationDoesNotRace ==
  /\ [][isPlaying /\ isPlaying' => routeData' = routeData]_vars
  /\ [](inFlight = <<>> /\ lastRequested # Null /\ Len(Deref(lastRequested)) >= 2 =>
          routeData # Null /\ RouteIsFrom(Deref(routeData), Deref(lastRequested)))

====
